---- MODULE Spec2Model ----
(***************************************************************************)
(* Firm model (src/firm-model/src/App.jsx): the React component App keeps  *)
(* five slider-driven Parameters FC, a, b, c, p, samples the revenue, cost *)
(* and profit curves into the memoized Series `data`, and derives the      *)
(* memoized Markers (Qstar, maxTP, breakEven, profitLimit) by a scan with  *)
(* bisection.                                                              *)
(*                                                                         *)
(* JavaScript numbers are IEEE-754 binary64 values.  They are modelled bit *)
(* for bit: a finite number is a record [s, m, e] denoting s * m * 2^e,    *)
(* where m is a 53-bit natural held as a little-endian sequence of 14-bit  *)
(* limbs (<<>> for zero), and every arithmetic operation rounds its exact  *)
(* result to nearest, ties to even.  The slider ranges keep all values far *)
(* from overflow and from the subnormal range, and the sign of a zero is   *)
(* never observed by the code, so zero is kept unsigned.                   *)
(*                                                                         *)
(* The three loops of a render (sampling, maximum, root scan with its      *)
(* inner bisection) advance one iteration per step; `pc` is the position   *)
(* of the render.  A render runs to completion before the next input event *)
(* (single-threaded event loop): slider events are enabled only at "idle". *)
(***************************************************************************)
EXTENDS Integers, Sequences, FiniteSets, TLC

(***************************************************************************)
(* Naturals of arbitrary size: little-endian sequences of limbs in         *)
(* 0..Base-1 without a leading zero limb.                                  *)
(***************************************************************************)
LimbBits == 14
Base == 16384
MantBits == 53

Min(x, y) == IF x <= y THEN x ELSE y

Limb(n, i) == IF i <= Len(n) THEN n[i] ELSE 0

RECURSIVE Strip(_)
Strip(n) == IF n = <<>> THEN n
            ELSE IF n[Len(n)] = 0 THEN Strip(SubSeq(n, 1, Len(n) - 1)) ELSE n

RECURSIVE BAddFrom(_, _, _, _)
BAddFrom(x, y, i, carry) ==
  IF i > Len(x) /\ i > Len(y) THEN (IF carry = 0 THEN <<>> ELSE <<carry>>)
  ELSE LET t == Limb(x, i) + Limb(y, i) + carry
       IN <<t % Base>> \o BAddFrom(x, y, i + 1, t \div Base)

BAdd(x, y) == BAddFrom(x, y, 1, 0)

RECURSIVE BSubFrom(_, _, _, _)
BSubFrom(x, y, i, borrow) ==
  IF i > Len(x) THEN <<>>
  ELSE LET t == x[i] - Limb(y, i) - borrow
       IN IF t < 0 THEN <<t + Base>> \o BSubFrom(x, y, i + 1, 1)
          ELSE <<t>> \o BSubFrom(x, y, i + 1, 0)

\* x - y for x >= y
BSub(x, y) == Strip(BSubFrom(x, y, 1, 0))

RECURSIVE BCmpFrom(_, _, _)
BCmpFrom(x, y, i) ==
  IF i = 0 THEN 0
  ELSE IF x[i] < y[i] THEN -1
  ELSE IF x[i] > y[i] THEN 1
  ELSE BCmpFrom(x, y, i - 1)

\* -1, 0 or 1 as x <, =, > y
BCmp(x, y) == IF Len(x) < Len(y) THEN -1
              ELSE IF Len(x) > Len(y) THEN 1
              ELSE BCmpFrom(x, y, Len(x))

RECURSIVE BMulSmallFrom(_, _, _, _)
BMulSmallFrom(x, d, i, carry) ==
  IF i > Len(x) THEN (IF carry = 0 THEN <<>> ELSE <<carry>>)
  ELSE LET t == x[i] * d + carry
       IN <<t % Base>> \o BMulSmallFrom(x, d, i + 1, t \div Base)

\* x * d for a single limb d
BMulSmall(x, d) == IF d = 0 THEN <<>> ELSE BMulSmallFrom(x, d, 1, 0)

BShlLimbs(x, n) == IF x = <<>> THEN x ELSE [j \in 1..n |-> 0] \o x

RECURSIVE BMulFrom(_, _, _)
BMulFrom(x, y, i) ==
  IF i > Len(y) THEN <<>>
  ELSE BAdd(BShlLimbs(BMulSmall(x, y[i]), i - 1), BMulFrom(x, y, i + 1))

BMul(x, y) == BMulFrom(x, y, 1)

\* x * 2^n
BShl(x, n) == BShlLimbs(BMulSmall(x, 2 ^ (n % LimbBits)), n \div LimbBits)

\* floor(x / 2^n)
BShr(x, n) ==
  LET q == n \div LimbBits
      r == n % LimbBits
  IN IF q >= Len(x) THEN <<>>
     ELSE Strip([j \in 1..(Len(x) - q) |->
                   (x[j + q] \div (2 ^ r))
                   + (Limb(x, j + q + 1) % (2 ^ r)) * (2 ^ (LimbBits - r))])

RECURSIVE IntBitLen(_)
IntBitLen(x) == IF x = 0 THEN 0 ELSE 1 + IntBitLen(x \div 2)

BBitLen(x) == IF x = <<>> THEN 0
              ELSE LimbBits * (Len(x) - 1) + IntBitLen(x[Len(x)])

\* bit j of x (bit 0 is the least significant)
BBit(x, j) == (Limb(x, (j \div LimbBits) + 1) \div (2 ^ (j % LimbBits))) % 2

\* the n low bits of x are all zero
BLowZero(x, n) ==
  /\ \A j \in 1..Min(n \div LimbBits, Len(x)) : x[j] = 0
  /\ Limb(x, (n \div LimbBits) + 1) % (2 ^ (n % LimbBits)) = 0

RECURSIVE BFromInt(_)
BFromInt(x) == IF x = 0 THEN <<>> ELSE <<x % Base>> \o BFromInt(x \div Base)

RECURSIVE BToIntFrom(_, _)
BToIntFrom(x, i) == IF i > Len(x) THEN 0 ELSE x[i] + Base * BToIntFrom(x, i + 1)

BToInt(x) == BToIntFrom(x, 1)

\* One limb of a quotient: the largest d with d * D <= R, estimated from the
\* top limbs (D has its top limb >= Base/2, so the estimate is at most 2 high).
QEstimate(R, D, n) == Min((Limb(R, n + 1) * Base + Limb(R, n)) \div D[n], Base - 1)

QCorrect(R, D, d) == IF BCmp(BMulSmall(D, d), R) > 0 THEN d - 1 ELSE d

QDigit(R, D) == QCorrect(R, D, QCorrect(R, D, QEstimate(R, D, Len(D))))

RECURSIVE BDivFrom(_, _, _, _, _)
RECURSIVE BDivDigit(_, _, _, _, _, _)
BDivDigit(N, D, i, R, q, d) ==
  BDivFrom(N, D, i - 1, BSub(R, BMulSmall(D, d)), <<d>> \o q)

RECURSIVE BDivLimb(_, _, _, _, _)
BDivLimb(N, D, i, R, q) == BDivDigit(N, D, i, R, q, QDigit(R, D))

BDivFrom(N, D, i, R, q) ==
  IF i = 0 THEN <<Strip(q), R>>
  ELSE BDivLimb(N, D, i, Strip(<<N[i]>> \o R), q)

\* <<floor(N / D), r>> with r = <<>> exactly when D divides N (long division
\* on limbs after scaling both so that D's top limb is at least Base/2)
BDivScaled(N, D) == BDivFrom(N, D, Len(N), <<>>, <<>>)

BDivShifted(N, D, sh) == BDivScaled(BShl(N, sh), BShl(D, sh))

BDivMod(N, D) == BDivShifted(N, D, LimbBits - IntBitLen(D[Len(D)]))

(***************************************************************************)
(* Numbers (IEEE-754 binary64).                                            *)
(***************************************************************************)
Zero == [s |-> 1, m |-> <<>>, e |-> 0]
NaN == [s |-> 0, m |-> <<>>, e |-> 0]
NegInfinity == [s |-> -1, m |-> <<>>, e |-> 1]
Null == [s |-> 0, m |-> <<>>, e |-> 1]

IsFinite(x) == x # NaN /\ x # NegInfinity /\ x # Null

\* the number nearest to sgn * M * 2^ex, ties to even
\* M = q * 2^sh + rest rounds up: rest is above the half, or is the half and
\* q is odd
RoundsUp(M, sh, q) ==
  BBit(M, sh - 1) = 1 /\ (~BLowZero(M, sh - 1) \/ q[1] % 2 = 1)

Nearest(M, sh, q) == IF RoundsUp(M, sh, q) THEN BAdd(q, <<1>>) ELSE q

\* rounding up may carry into bit MantBits
Renormal(sgn, r, ex) ==
  IF BBitLen(r) > MantBits THEN [s |-> sgn, m |-> BShr(r, 1), e |-> ex + 1]
  ELSE [s |-> sgn, m |-> r, e |-> ex]

RoundLen(sgn, M, ex, L) ==
  IF L = 0 THEN Zero
  ELSE IF L <= MantBits
       THEN [s |-> sgn, m |-> BShl(M, MantBits - L), e |-> ex - (MantBits - L)]
  ELSE Renormal(sgn, Nearest(M, L - MantBits, BShr(M, L - MantBits)),
                ex + (L - MantBits))

Round(sgn, M, ex) == RoundLen(sgn, M, ex, BBitLen(M))

FNeg(x) == IF x.m = <<>> THEN x ELSE [x EXCEPT !.s = -x.s]

FAbs(x) == [x EXCEPT !.s = 1]

\* x * y
FMul(x, y) == IF x.m = <<>> \/ y.m = <<>> THEN Zero
              ELSE Round(x.s * y.s, BMul(x.m, y.m), x.e + y.e)

\* x + y
\* the exact sum of sx * X and sy * Y for sx # sy, as sign and magnitude
Difference(sx, X, sy, Y, cmp) ==
  IF cmp = 0 THEN [s |-> 1, m |-> <<>>]
  ELSE IF cmp > 0 THEN [s |-> sx, m |-> BSub(X, Y)]
  ELSE [s |-> sy, m |-> BSub(Y, X)]

ExactSum(sx, X, sy, Y) ==
  IF sx = sy THEN [s |-> sx, m |-> BAdd(X, Y)]
  ELSE Difference(sx, X, sy, Y, BCmp(X, Y))

RoundSum(r, ex) == Round(r.s, r.m, ex)

AddAt(x, y, ex) ==
  RoundSum(ExactSum(x.s, BShl(x.m, x.e - ex), y.s, BShl(y.m, y.e - ex)), ex)

FAdd(x, y) ==
  IF x.m = <<>> THEN y
  ELSE IF y.m = <<>> THEN x
  ELSE AddAt(x, y, Min(x.e, y.e))

\* x - y
FSub(x, y) == FAdd(x, FNeg(y))

\* x / y for y # 0: the quotient to MantBits + 3 bits, with a sticky bit for
\* the remainder, rounded once
Sticky(qr) == BAdd(BMulSmall(qr[1], 2), IF qr[2] = <<>> THEN <<>> ELSE <<1>>)

FDiv(x, y) ==
  IF x.m = <<>> THEN Zero
  ELSE Round(x.s * y.s, Sticky(BDivMod(BShl(x.m, MantBits + 3), y.m)),
             x.e - y.e - (MantBits + 3) - 1)

Sign(x) == IF x.m = <<>> THEN 0 ELSE x.s

\* -1, 0 or 1 as x <, =, > y (x, y finite, or -Infinity)
CmpSigned(x, sx, y, sy) ==
  IF sx # sy THEN (IF sx < sy THEN -1 ELSE 1)
  ELSE IF sx = 0 THEN 0
  ELSE IF x.e # y.e THEN (IF x.e < y.e THEN -sx ELSE sx)
  ELSE sx * BCmp(x.m, y.m)

FCmp(x, y) ==
  IF x = NegInfinity THEN (IF y = NegInfinity THEN 0 ELSE -1)
  ELSE IF y = NegInfinity THEN 1
  ELSE CmpSigned(x, Sign(x), y, Sign(y))

FLt(x, y) == FCmp(x, y) < 0
FLe(x, y) == FCmp(x, y) <= 0
FGt(x, y) == FCmp(x, y) > 0
FGe(x, y) == FCmp(x, y) >= 0

\* an integer literal
FromInt(n) == IF n < 0 THEN Round(-1, BFromInt(-n), 0) ELSE Round(1, BFromInt(n), 0)

\* Number("<n / 10^digits>"): the number nearest to a decimal literal
Dec(n, digits) == FDiv(FromInt(n), FromInt(10 ^ digits))

\* x.toFixed(digits) for x >= 0, as the integer n with n / 10^digits nearest
\* to x (the larger n on a tie)
Scaled(N, ex) ==
  IF ex >= 0 THEN BToInt(BShl(N, ex))
  ELSE BToInt(BShr(BAdd(N, BShl(<<1>>, -ex - 1)), -ex))

ToFixedInt(x, digits) ==
  IF x.m = <<>> THEN 0 ELSE Scaled(BMulSmall(x.m, 10 ^ digits), x.e)

\* Number(x.toFixed(digits))
NumberToFixed(x, digits) == Dec(ToFixedInt(x, digits), digits)

(***************************************************************************)
(* The component's constants.                                              *)
(***************************************************************************)
Qmax == 10
step == Dec(1, 1)
scanStep == Dec(1, 2)
Eps == Dec(1, 9)
DedupTol == Dec(1, 3)
BisectIters == 30
MinGap == 1

\* the bound of both for loops, Qmax + 1e-9
LoopBound == FAdd(FromInt(Qmax), Eps)

(***************************************************************************)
(* Bounds of the model: how many sliders may be away from their initial    *)
(* position at once, and how many of the parameter tuples of Inputs the    *)
(* pure-function specification draws.                                      *)
(***************************************************************************)
MaxMoved == 1
NumInputs == 6

VARIABLES
  FC, a, b, c, p,        \* useState: the Parameters
  data, dataDeps,        \* useMemo: the Series and the dependency values saved with it
  markers,               \* useMemo: the Markers
  dataFor, markersFor,   \* history: the Parameters each memo value was computed from
  pc,                    \* position of the render: sample, max, scan, bisect, idle
  pts, Q,                \* sampling loop: the points so far, the loop variable
  maxTP, Qstar, row,     \* maximum loop: best so far, index of the next row
  roots, prevQ, prevTP, currQ, currTP,   \* root scan (its loop variable is Q too)
  lo, hi, k,             \* bisection
  uniqueRoots

vars == <<FC, a, b, c, p, data, dataDeps, markers, dataFor, markersFor, pc, pts, Q,
          maxTP, Qstar, row, roots, prevQ, prevTP, currQ, currTP, lo, hi, k,
          uniqueRoots>>

locals == <<pts, Q, maxTP, Qstar, row, roots, prevQ, prevTP, currQ, currTP, lo, hi, k,
            uniqueRoots>>

Params == [FC |-> FC, a |-> a, b |-> b, c |-> c, p |-> p]

(***************************************************************************)
(* The curves.                                                             *)
(***************************************************************************)
\* TC = FC + a * Q - b * Q * Q + c * Q * Q * Q
TotalCost(P, x) ==
  FAdd(FSub(FAdd(P.FC, FMul(P.a, x)), FMul(FMul(P.b, x), x)),
       FMul(FMul(FMul(P.c, x), x), x))

\* MC = a - 2 * b * Q + 3 * c * Q * Q
MarginalCost(P, x) ==
  FAdd(FSub(P.a, FMul(FMul(FromInt(2), P.b), x)),
       FMul(FMul(FMul(FromInt(3), P.c), x), x))

\* faulty variant of StoredQ: the loop variable itself, without toFixed
RawQ(x) == x

\* the Q stored with a point: Number(Q.toFixed(3))
StoredQ(x) == NumberToFixed(x, 3)

\* pts.push({ Q: Number(Q.toFixed(3)), TR, AR, MR, TC, AC, MC, TP, AP, MP })
Pushed(P, x, TR, TC, MC, TP) ==
  [Q |-> StoredQ(x),
   TR |-> TR,
   AR |-> IF x = Zero THEN P.p ELSE FDiv(TR, x),
   MR |-> P.p,
   TC |-> TC,
   AC |-> IF x = Zero THEN NaN ELSE FDiv(TC, x),
   MC |-> MC,
   TP |-> TP,
   AP |-> IF x = Zero THEN NaN ELSE FDiv(TP, x),
   MP |-> FSub(P.p, MC)]

\* TP = TR - TC
WithProfit(P, x, TR, TC) == Pushed(P, x, TR, TC, MarginalCost(P, x), FSub(TR, TC))

\* one point of the Series, at the loop variable x
Point(P, x) == WithProfit(P, x, FMul(P.p, x), TotalCost(P, x))

tpAt(P, x) == FSub(FMul(P.p, x), TotalCost(P, x))

\* faulty variant of Better: row.TP >= maxTP, the last maximum wins
AtLeast(tp, best) == FGe(tp, best)

\* row.TP > maxTP
Better(tp, best) == FGt(tp, best)

\* faulty variant of KeepLower: prevTP * midTP >= 0, the wrong half is kept
SameSign(fLo, fMid) == FGe(FMul(fLo, fMid), Zero)

\* prevTP * midTP <= 0: the sign change is in the lower half
KeepLower(fLo, fMid) == FLe(FMul(fLo, fMid), Zero)

Mid(x, y) == FDiv(FAdd(x, y), FromInt(2))

RECURSIVE Insert(_, _)
Insert(x, sorted) ==
  IF sorted = <<>> THEN <<x>>
  ELSE IF FLt(x, sorted[1]) THEN <<x>> \o sorted
  ELSE <<sorted[1]>> \o Insert(x, Tail(sorted))

RECURSIVE SortFrom(_, _)
SortFrom(arr, n) == IF n = 0 THEN <<>> ELSE Insert(arr[n], SortFrom(arr, n - 1))

\* arr.sort((x, y) => x - y)
SortNumbers(arr) == SortFrom(arr, Len(arr))

\* faulty variant of Distinct: x >= arr[idx - 1], nothing is dropped
NotBefore(x, before) == FGe(x, before)

\* Math.abs(x - arr[idx - 1]) > 1e-3
Distinct(x, before) == FGt(FAbs(FSub(x, before)), DedupTol)

RECURSIVE FilterFrom(_, _)
FilterFrom(arr, idx) ==
  IF idx > Len(arr) THEN <<>>
  ELSE IF idx = 1 \/ Distinct(arr[idx], arr[idx - 1])
       THEN <<arr[idx]>> \o FilterFrom(arr, idx + 1)
  ELSE FilterFrom(arr, idx + 1)

\* arr.filter((x, idx, arr) => idx === 0 || Math.abs(x - arr[idx - 1]) > 1e-3)
Unique(arr) == FilterFrom(arr, 1)

\* faulty variant of FarEnough: candidate > breakEven, any later root is taken
AnyLater(candidate, first) == FGt(candidate, first)

\* candidate - breakEven >= 1
FarEnough(candidate, first) == FGe(FSub(candidate, first), FromInt(MinGap))

BreakEvenOf(uniq) == IF Len(uniq) > 0 THEN uniq[1] ELSE Null

ProfitLimitOf(uniq) ==
  IF Len(uniq) > 1 /\ FarEnough(uniq[2], uniq[1]) THEN uniq[2] ELSE Null

(***************************************************************************)
(* Sliders: <input type="range"> at position n reports the string of       *)
(* n * step, which the change handler passes through Number.               *)
(***************************************************************************)
Sliders ==
  [FC |-> [max |-> 200, digits |-> 1],
   a  |-> [max |-> 200, digits |-> 1],
   b  |-> [max |-> 500, digits |-> 2],
   c  |-> [max |-> 100, digits |-> 2],
   p  |-> [max |-> 200, digits |-> 1]]

SliderValue(name, n) == Dec(n, Sliders[name].digits)

\* the useState initial values, as slider positions: FC=5, a=5, b=1, c=0.1, p=5
Initial == [FC |-> 50, a |-> 50, b |-> 100, c |-> 10, p |-> 50]

\* the positions the model moves each slider to
Positions ==
  [FC |-> {50, 0}, a |-> {50, 70}, b |-> {100, 0}, c |-> {10, 0}, p |-> {50, 1}]

InitialParams == [n \in DOMAIN Initial |-> SliderValue(n, Initial[n])]

Moved(P) == Cardinality({n \in DOMAIN Initial : P[n] # InitialParams[n]})

\* the parameter tuples of the pure-function specification, as slider positions
Inputs ==
  << [FC |-> 50, a |-> 50, b |-> 100, c |-> 10, p |-> 50],
     [FC |-> 0,  a |-> 70, b |-> 100, c |-> 10, p |-> 50],
     [FC |-> 0,  a |-> 70, b |-> 0,   c |-> 0,  p |-> 50],
     [FC |-> 0,  a |-> 55, b |-> 100, c |-> 10, p |-> 50],
     [FC |-> 50, a |-> 0,  b |-> 0,   c |-> 0,  p |-> 0],
     [FC |-> 40, a |-> 50, b |-> 500, c |-> 100, p |-> 50],
     [FC |-> 0,  a |-> 50, b |-> 50,  c |-> 10, p |-> 50] >>

InputParams(j) == [n \in DOMAIN Initial |-> SliderValue(n, Inputs[j][n])]

\* faulty variant of DataDeps: c is missing from the dependency list
DepsWithoutC == {"FC", "a", "b", "p"}

\* the dependency list of the data memo: [FC, a, b, c, p]
DataDeps == {"FC", "a", "b", "c", "p"}

DepsOf(P) == [n \in DataDeps |-> P[n]]

(***************************************************************************)
(* A render.  The memo callbacks read the Parameters of the render in      *)
(* progress; nothing reads the previous memo values while it runs, so they *)
(* are dropped when it starts.                                             *)
(***************************************************************************)
FreshLocals ==
  /\ pts = <<>> /\ Q = Zero
  /\ maxTP = NegInfinity /\ Qstar = Zero /\ row = 1
  /\ roots = <<>> /\ prevQ = Zero /\ prevTP = Zero /\ currQ = Zero /\ currTP = Zero
  /\ lo = Zero /\ hi = Zero /\ k = 0
  /\ uniqueRoots = <<>>

FirstRender(P) ==
  /\ FC = P.FC /\ a = P.a /\ b = P.b /\ c = P.c /\ p = P.p
  /\ data = <<>> /\ dataDeps = DepsOf(P) /\ dataFor = P
  /\ markers = Null /\ markersFor = P
  /\ pc = "sample"
  /\ FreshLocals

Init == FirstRender(InitialParams)

InitInputs == \E j \in 1..NumInputs : FirstRender(InputParams(j))

\* the render after a state update to P: the data memo recomputes when one of
\* its saved dependency values differs, and the markers memo when data does
Rerender(P) ==
  IF DepsOf(P) # dataDeps
  THEN /\ data' = <<>> /\ dataDeps' = DepsOf(P) /\ dataFor' = P
       /\ markers' = Null /\ markersFor' = P
       /\ pc' = "sample"
       /\ pts' = <<>> /\ Q' = Zero
       /\ maxTP' = NegInfinity /\ Qstar' = Zero /\ row' = 1
       /\ roots' = <<>> /\ prevQ' = Zero /\ prevTP' = Zero
       /\ currQ' = Zero /\ currTP' = Zero
       /\ lo' = Zero /\ hi' = Zero /\ k' = 0
       /\ uniqueRoots' = <<>>
  ELSE UNCHANGED <<data, dataDeps, dataFor, markers, markersFor, pc, locals>>

\* onChange of a slider: setValue(Number(e.target.value)); the handlers below
\* run between renders (pc = "idle")
Change(name, n) ==
  LET P == [Params EXCEPT ![name] = SliderValue(name, n)]
  IN /\ n \in 0..Sliders[name].max
     /\ P # Params
     /\ Moved(P) <= MaxMoved
     /\ FC' = P.FC /\ a' = P.a /\ b' = P.b /\ c' = P.c /\ p' = P.p
     /\ Rerender(P)

setFC == \E n \in Positions.FC : pc = "idle" /\ Change("FC", n)
setA == \E n \in Positions.a : pc = "idle" /\ Change("a", n)
setB == \E n \in Positions.b : pc = "idle" /\ Change("b", n)
setC == \E n \in Positions.c : pc = "idle" /\ Change("c", n)
setP == \E n \in Positions.p : pc = "idle" /\ Change("p", n)

\* for (let Q = 0; Q <= Qmax + 1e-9; Q += step) { ... pts.push({...}) }
SampleLoop ==
  /\ pc = "sample"
  /\ FLe(Q, LoopBound)
  /\ pts' = Append(pts, Point(Params, Q))
  /\ Q' = FAdd(Q, step)
  /\ UNCHANGED <<FC, a, b, c, p, data, dataDeps, markers, dataFor, markersFor, pc,
                 maxTP, Qstar, row, roots, prevQ, prevTP, currQ, currTP, lo, hi, k,
                 uniqueRoots>>

\* return pts (the local array becomes the memo value); the markers memo
\* then starts with maxTP = -Infinity, Qstar = 0
SampleDone ==
  /\ pc = "sample"
  /\ ~FLe(Q, LoopBound)
  /\ data' = pts
  /\ pts' = <<>>
  /\ maxTP' = NegInfinity /\ Qstar' = Zero /\ row' = 1
  /\ pc' = "max"
  /\ UNCHANGED <<FC, a, b, c, p, dataDeps, markers, dataFor, markersFor, Q,
                 roots, prevQ, prevTP, currQ, currTP, lo, hi, k, uniqueRoots>>

\* for (const row of data) { if (row.TP > maxTP) { maxTP = row.TP; Qstar = row.Q } }
MaxLoop ==
  /\ pc = "max"
  /\ row <= Len(data)
  /\ IF Better(data[row].TP, maxTP)
     THEN maxTP' = data[row].TP /\ Qstar' = data[row].Q
     ELSE UNCHANGED <<maxTP, Qstar>>
  /\ row' = row + 1
  /\ UNCHANGED <<FC, a, b, c, p, data, dataDeps, markers, dataFor, markersFor, pc,
                 pts, Q, roots, prevQ, prevTP, currQ, currTP, lo, hi, k, uniqueRoots>>

\* roots = []; prevQ = 0; prevTP = tpAt(prevQ); Q = scanStep
MaxDone ==
  /\ pc = "max"
  /\ row > Len(data)
  /\ roots' = <<>>
  /\ prevQ' = Zero
  /\ prevTP' = tpAt(Params, Zero)
  /\ Q' = scanStep
  /\ pc' = "scan"
  /\ UNCHANGED <<FC, a, b, c, p, data, dataDeps, markers, dataFor, markersFor,
                 pts, maxTP, Qstar, row, currQ, currTP, lo, hi, k, uniqueRoots>>

\* the end of a scan iteration: prevQ = currQ; prevTP = currTP; Q += scanStep
ScanNext ==
  /\ prevQ' = currQ' /\ prevTP' = currTP' /\ Q' = FAdd(Q, scanStep)
  /\ UNCHANGED <<pc, lo, hi, k>>

\* one iteration of for (let Q = scanStep; Q <= Qmax + 1e-9; Q += scanStep);
\* a strict sign change enters the bisection before the iteration ends
ScanLoop ==
  /\ pc = "scan"
  /\ FLe(Q, LoopBound)
  /\ currQ' = NumberToFixed(Q, 4)
  /\ currTP' = tpAt(Params, currQ')
  /\ IF ~IsFinite(prevTP) \/ ~IsFinite(currTP') THEN ScanNext /\ UNCHANGED roots
     ELSE IF prevTP = Zero THEN ScanNext /\ roots' = Append(roots, prevQ)
     ELSE IF currTP' = Zero THEN ScanNext /\ roots' = Append(roots, currQ')
     ELSE IF FLt(FMul(prevTP, currTP'), Zero)
          THEN /\ lo' = prevQ /\ hi' = currQ' /\ k' = 0
               /\ pc' = "bisect"
               /\ UNCHANGED <<roots, prevQ, prevTP, Q>>
     ELSE ScanNext /\ UNCHANGED roots
  /\ UNCHANGED <<FC, a, b, c, p, data, dataDeps, markers, dataFor, markersFor,
                 pts, maxTP, Qstar, row, uniqueRoots>>

\* if (prevTP * midTP <= 0) hi = mid; else { lo = mid; prevTP = midTP }
Halve(mid, midTP) ==
  IF KeepLower(prevTP, midTP)
  THEN hi' = mid /\ UNCHANGED <<lo, prevTP>>
  ELSE lo' = mid /\ prevTP' = midTP /\ UNCHANGED hi

\* mid = (lo + hi) / 2; midTP = tpAt(mid)
Bisect(mid) == Halve(mid, tpAt(Params, mid))

\* one iteration of for (let k = 0; k < 30; k += 1)
BisectLoop ==
  /\ pc = "bisect"
  /\ k < BisectIters
  /\ Bisect(Mid(lo, hi))
  /\ k' = k + 1
  /\ UNCHANGED <<FC, a, b, c, p, data, dataDeps, markers, dataFor, markersFor, pc,
                 pts, Q, maxTP, Qstar, row, roots, prevQ, currQ, currTP, uniqueRoots>>

\* roots.push((lo + hi) / 2); then the scan iteration ends: prevQ = currQ;
\* prevTP = currTP; Q += scanStep
BisectDone ==
  /\ pc = "bisect"
  /\ ~(k < BisectIters)
  /\ roots' = Append(roots, Mid(lo, hi))
  /\ prevQ' = currQ
  /\ prevTP' = currTP
  /\ Q' = FAdd(Q, scanStep)
  /\ pc' = "scan"
  /\ UNCHANGED <<FC, a, b, c, p, data, dataDeps, markers, dataFor, markersFor,
                 pts, maxTP, Qstar, row, currQ, currTP, lo, hi, k, uniqueRoots>>

\* uniqueRoots = roots.sort(...).filter(...); breakEven; profitLimit; return
ScanDone ==
  /\ pc = "scan"
  /\ ~FLe(Q, LoopBound)
  /\ roots' = SortNumbers(roots)
  /\ uniqueRoots' = Unique(roots')
  /\ markers' = [Qstar |-> Qstar, maxTP |-> maxTP,
                 breakEven |-> BreakEvenOf(uniqueRoots'),
                 profitLimit |-> ProfitLimitOf(uniqueRoots')]
  /\ pc' = "idle"
  /\ UNCHANGED <<FC, a, b, c, p, data, dataDeps, dataFor, markersFor,
                 pts, Q, maxTP, Qstar, row, prevQ, prevTP, currQ, currTP, lo, hi, k>>

Compute ==
  \/ SampleLoop \/ SampleDone
  \/ MaxLoop \/ MaxDone
  \/ ScanLoop \/ ScanDone
  \/ BisectLoop \/ BisectDone

Next == setFC \/ setA \/ setB \/ setC \/ setP \/ Compute

\* the component under slider events
Spec == Init /\ [][Next]_vars

\* sample and findMarkers as pure functions of the Parameters
SpecInputs == InitInputs /\ [][Compute]_vars

(***************************************************************************)
(* Properties.  Comparisons and differences are those of the code's own    *)
(* arithmetic (FLt, FSub, ...); a render is complete at pc = "idle", where *)
(* `roots` is the sorted raw list (sort is in place).                      *)
(***************************************************************************)
Rendered == pc = "idle"

\* TP a scan step below and above a marker
Below(x) == tpAt(Params, FSub(x, scanStep))
Above(x) == tpAt(Params, FAdd(x, scanStep))

\* C1: a reported breakEven is strictly greater than 0 and TP crosses from
\* negative just below it to positive just above it; Q = 0 is never reported
C1_BreakEvenCrossesUp ==
  (Rendered /\ markers.breakEven # Null) =>
    /\ FGt(markers.breakEven, Zero)
    /\ FLt(Below(markers.breakEven), Zero)
    /\ FGt(Above(markers.breakEven), Zero)

\* the quantities the root scan visits: n / 100 for n = 0 .. 100 * Qmax
ScanGrid == 0..(100 * Qmax)

NeverPositive == \A n \in ScanGrid : FLe(tpAt(Params, Dec(n, 2)), Zero)

\* C2: when TP is never positive on the scanned grid, breakEven and
\* profitLimit are both undefined
C2_NoProfitNoMarkers ==
  (Rendered /\ NeverPositive) =>
    (markers.breakEven = Null /\ markers.profitLimit = Null)

\* C3: a reported profitLimit has breakEven < Qstar < profitLimit, and TP
\* crosses from positive just below it to negative just above it
C3_QstarBetweenMarkers ==
  (Rendered /\ markers.profitLimit # Null) =>
    /\ FLt(markers.breakEven, markers.Qstar)
    /\ FLt(markers.Qstar, markers.profitLimit)
    /\ FGt(Below(markers.profitLimit), Zero)
    /\ FLt(Above(markers.profitLimit), Zero)

\* the second deduplicated root is less than 1 beyond the first
SecondRootClose ==
  Len(uniqueRoots) >= 2 /\ FLt(FSub(uniqueRoots[2], uniqueRoots[1]), FromInt(1))

Rows == 1..Len(data)

\* C5: maxTP is the maximum TP of the Series and Qstar is the Q of the first
\* sample that attains it
C5_FirstMaximum ==
  Rendered =>
    /\ \A i \in Rows : FLe(data[i].TP, markers.maxTP)
    /\ \E i \in Rows : /\ data[i].TP = markers.maxTP
                       /\ data[i].Q = markers.Qstar
                       /\ \A j \in 1..(i - 1) : data[j].TP # markers.maxTP

\* the maximum is attained by more than one sample
C5_TiedMaximum ==
  Rendered /\ \E i, j \in Rows : /\ i < j
                                 /\ data[i].TP = markers.maxTP
                                 /\ data[j].TP = markers.maxTP

\* C6 as stated: the first Q is 0, consecutive Q's increase by exactly one
\* step, and the last Q is at most Qmax, within one step of it, and is Qmax
C6_ExactSpacing ==
  Rendered =>
    /\ data[1].Q = Zero
    /\ \A i \in 1..(Len(data) - 1) : /\ FLt(data[i].Q, data[i + 1].Q)
                                     /\ FSub(data[i + 1].Q, data[i].Q) = step
    /\ FLe(data[Len(data)].Q, FromInt(Qmax))
    /\ FLt(FSub(FromInt(Qmax), data[Len(data)].Q), step)
    /\ data[Len(data)].Q = FromInt(Qmax)

\* C6, amended: the Series has 10 * Qmax + 1 samples and its i-th Q (counting
\* from 0) is the number written i / 10 to one decimal, so the Q's start at 0,
\* increase strictly, are one step apart as decimals, and end at Qmax
C6_DecimalGrid ==
  Rendered =>
    /\ Len(data) = 10 * Qmax + 1
    /\ \A i \in Rows : data[i].Q = Dec(i - 1, 1)
    /\ \A i \in 1..(Len(data) - 1) : FLt(data[i].Q, data[i + 1].Q)
    /\ data[1].Q = Zero
    /\ data[Len(data)].Q = FromInt(Qmax)

\* two consecutive stored Q's whose difference is not the number step
C6_RoundedSpacing ==
  Rendered /\ \E i \in 1..(Len(data) - 1) : FSub(data[i + 1].Q, data[i].Q) # step

\* C7: in every sample TP = TR - TC, MP = MR - MC, AR = MR = p, and AC and AP
\* are NaN exactly at Q = 0 and are TC / Q and TP / Q elsewhere
C7_ClosedForm ==
  \A i \in Rows :
    /\ data[i].TP = FSub(data[i].TR, data[i].TC)
    /\ data[i].MP = FSub(data[i].MR, data[i].MC)
    /\ data[i].AR = p
    /\ data[i].MR = p
    /\ (data[i].AC = NaN) <=> (data[i].Q = Zero)
    /\ (data[i].AP = NaN) <=> (data[i].Q = Zero)
    /\ (data[i].Q # Zero) => /\ data[i].AC = FDiv(data[i].TC, data[i].Q)
                             /\ data[i].AP = FDiv(data[i].TP, data[i].Q)

\* C8: in every rendered state the Series and the Markers are those computed
\* from the current Parameters, and the Parameters change only between
\* renders, each change starting a recomputation
C8_RenderIsCurrent ==
  /\ [](Rendered => /\ dataFor = Params
                    /\ markersFor = Params
                    /\ Len(data) = 10 * Qmax + 1
                    /\ data[1].TC = FC
                    /\ data[2] = Point(Params, step)
                    /\ markers # Null)
  /\ [][Params' # Params => (Rendered /\ pc' = "sample" /\ data' = <<>>)]_vars

\* a render completed after a slider was moved
C8_RenderedAfterChange == Rendered /\ Params # InitialParams

Bisecting == pc = "bisect"

Width == FSub(hi, lo)

\* x / 2^n (division by a power of two only lowers the exponent)
Halved(x, n) == IF x.m = <<>> THEN x ELSE [x EXCEPT !.e = x.e - n]

BracketInside == FLe(prevQ, lo) /\ FLe(lo, hi) /\ FLe(hi, currQ)

BracketsRoot == FLe(FMul(tpAt(Params, lo), tpAt(Params, hi)), Zero)

\* the root recorded after the last iteration is the midpoint of the bracket
RootInside ==
  (k = BisectIters) => (FLe(prevQ, Mid(lo, hi)) /\ FLe(Mid(lo, hi), currQ))

\* C9 as stated: at each of the 30 iterations prevQ <= lo <= hi <= currQ, the
\* width has halved (after k iterations it is (currQ - prevQ) / 2^k), and
\* TP(lo) * TP(hi) <= 0; the recorded midpoint lies in [prevQ, currQ]
C9_WidthHalves ==
  Bisecting => /\ BracketInside
               /\ Width = Halved(FSub(currQ, prevQ), k)
               /\ BracketsRoot
               /\ RootInside

\* the spacing of the numbers in [8, 16), the largest spacing up to Qmax
Spacing == Halved(FromInt(1), MantBits - 4)

\* C9, amended: at each of the 30 iterations prevQ <= lo <= hi <= currQ and
\* TP(lo) * TP(hi) <= 0; the width halves up to the rounding of the midpoint
\* (after k iterations it is within one spacing of (currQ - prevQ) / 2^k);
\* the recorded midpoint lies in [prevQ, currQ]
C9_WidthHalvesRounded ==
  Bisecting => /\ BracketInside
               /\ FLe(FAbs(FSub(Width, Halved(FSub(currQ, prevQ), k))), Spacing)
               /\ BracketsRoot
               /\ RootInside

\* a final bracket whose width is not (currQ - prevQ) / 2^30
C9_RoundedFinalBracket ==
  Bisecting /\ k = BisectIters /\ Width # Halved(FSub(currQ, prevQ), k)

Kept == 1..Len(uniqueRoots)

Copies(x, arr) == Cardinality({n \in 1..Len(arr) : arr[n] = x})

\* C10: the deduplicated list is strictly ascending with any two entries more
\* than 1e-3 apart, the smallest raw root is kept, and a root recorded twice
\* (a grid point with TP exactly zero) is kept exactly once
C10_Deduplicated ==
  Rendered =>
    /\ \A i, j \in Kept :
         (i < j) => /\ FLt(uniqueRoots[i], uniqueRoots[j])
                    /\ FGt(FSub(uniqueRoots[j], uniqueRoots[i]), DedupTol)
    /\ (roots # <<>>) => /\ uniqueRoots # <<>>
                         /\ Copies(uniqueRoots[1], roots) >= 1
                         /\ \A i \in 1..Len(roots) : FLe(uniqueRoots[1], roots[i])
    /\ \A i \in 1..Len(roots) :
         (Copies(roots[i], roots) >= 2) => (Copies(roots[i], uniqueRoots) = 1)

\* a root was recorded twice and one copy was dropped
C10_DuplicateDropped ==
  Rendered /\ Len(uniqueRoots) < Len(roots)
           /\ \E i \in 1..Len(roots) : Copies(roots[i], roots) >= 2

====
